---- MODULE Spec2Model ----
(***************************************************************************)
(* Model of tern/formats/opossumui/generator.py: the path-tree compiler    *)
(* (_calculate_file_tree_from_paths, _add_resource_to_tree), the           *)
(* attribution aggregator (get_external_attrs) and the document assembler  *)
(* (get_document_dict).                                                    *)
(*                                                                         *)
(* A Python str is a sequence of one-character strings.  A Python dict     *)
(* that is only indexed is a function; resources_to_attrs, whose keys()    *)
(* are listed, is a sequence of [key, ids] entries in insertion order.     *)
(* The nested file tree is the function from the address of a node (the    *)
(* sequence of path elements leading to it) to the value stored there:     *)
(* Sentinel for the int 1, Mapping for a dict.                             *)
(***************************************************************************)
EXTENDS Integers, Sequences, FiniteSets, TLC

VARIABLES resources, tree_pc, filetree, tree_error,
          image, pc, layer_pos, next_uuid, pkg_path,
          external_attrs, resources_to_attrs, attr_breakpoints,
          error, docu_dict

vars == <<resources, tree_pc, filetree, tree_error,
          image, pc, layer_pos, next_uuid, pkg_path,
          external_attrs, resources_to_attrs, attr_breakpoints,
          error, docu_dict>>

treeVars == <<resources, tree_pc, filetree, tree_error>>

docVars == <<image, pc, layer_pos, next_uuid, pkg_path,
             external_attrs, resources_to_attrs, attr_breakpoints,
             error, docu_dict>>

-----------------------------------------------------------------------------
(* Bounds of the checked inputs.                                           *)

MaxPaths == 2

MaxPathLen == 4

MaxLayers == 2

MaxPkgs == 1

MaxFiles == 2

-----------------------------------------------------------------------------
(* Python values.                                                          *)

Sep == "/"

PathChars == {Sep, "a"}

NoError == "none"

Sentinel == "1"

Mapping == "{}"

EmptyTree == <<>>

PyNone == [kind |-> "None"]

PyList(items) == [kind |-> "list", items |-> items]

SeqsUpTo(S, n) == UNION {[1..k -> S] : k \in 0..n}

IsPrefix(p, s) == Len(p) <= Len(s) /\ SubSeq(s, 1, Len(p)) = p

\* str.split("/"): the fields between separators, empty fields included.
RECURSIVE Split(_)
Split(s) ==
    IF \A i \in 1..Len(s) : s[i] # Sep
    THEN <<s>>
    ELSE LET i == CHOOSE j \in 1..Len(s) :
                      s[j] = Sep /\ \A k \in 1..(j - 1) : s[k] # Sep
         IN  <<SubSeq(s, 1, i - 1)>> \o Split(SubSeq(s, i + 1, Len(s)))

\* list(filter(None, fields)): the non-empty fields.
FilterNone(fields) == SelectSeq(fields, LAMBDA f : Len(f) > 0)

PathElements(resource) == FilterNone(Split(resource))

-----------------------------------------------------------------------------
(* _add_resource_to_tree.  at is the address of the node target_filetree   *)
(* refers to; the root is a dict.  Calling .get on the int 1 raises.       *)

RECURSIVE AddResourceWalk(_, _, _, _, _)
AddResourceWalk(tree, path_elements, is_file, index, at) ==
    IF index > Len(path_elements)
    THEN [filetree |-> tree, error |-> NoError]
    ELSE IF at # <<>> /\ tree[at] = Sentinel
    THEN [filetree |-> tree, error |-> "AttributeError"]
    ELSE LET child == Append(at, path_elements[index])
             value == IF index = Len(path_elements) /\ is_file
                      THEN Sentinel ELSE Mapping
             tree2 == IF child \notin DOMAIN tree
                      THEN (child :> value) @@ tree ELSE tree
         IN  AddResourceWalk(tree2, path_elements, is_file, index + 1, child)

\* The walk without "target_filetree = target_filetree[path_element]":
\* every element is looked up and stored in the root mapping.
RECURSIVE NoDescentWalk(_, _, _, _)
NoDescentWalk(tree, path_elements, is_file, index) ==
    IF index > Len(path_elements)
    THEN [filetree |-> tree, error |-> NoError]
    ELSE LET child == <<path_elements[index]>>
             value == IF index = Len(path_elements) /\ is_file
                      THEN Sentinel ELSE Mapping
             tree2 == IF child \notin DOMAIN tree
                      THEN (child :> value) @@ tree ELSE tree
         IN  NoDescentWalk(tree2, path_elements, is_file, index + 1)

_add_resource_to_tree_no_descent(target_filetree, path_elements, is_file) ==
    NoDescentWalk(target_filetree, path_elements, is_file, 1)

_add_resource_to_tree(target_filetree, path_elements, is_file) ==
    AddResourceWalk(target_filetree, path_elements, is_file, 1, <<>>)

\* resource[-1] == "/"
IsFileArg(resource) == resource[Len(resource)] = Sep

RECURSIVE CalculateLoop(_, _, _)
CalculateLoop(items, i, tree) ==
    IF i > Len(items)
    THEN [filetree |-> tree, error |-> NoError]
    ELSE LET resource == items[i] IN
         IF resource # <<Sep>>
         THEN IF Len(resource) = 0
              THEN [filetree |-> tree, error |-> "IndexError"]
              ELSE LET r == _add_resource_to_tree(tree, PathElements(resource),
                                              IsFileArg(resource))
                   IN  IF r.error # NoError
                       THEN r
                       ELSE CalculateLoop(items, i + 1, r.filetree)
         ELSE CalculateLoop(items, i + 1, tree)

\* Iterating over None raises TypeError.
_calculate_file_tree_from_paths(arg) ==
    IF arg.kind = "None"
    THEN [filetree |-> EmptyTree, error |-> "TypeError"]
    ELSE CalculateLoop(arg.items, 1, EmptyTree)

-----------------------------------------------------------------------------
(* String literals and formatting used by get_external_attrs.              *)

None == <<"None">>

Unbound == <<"<unbound>">>

NONE == <<"N", "O", "N", "E">>

PackagesDir == <<"P", "a", "c", "k", "a", "g", "e", "s">>

TernPrefix == <<"T", "e", "r", "n", ":">>

LayerSourceName == TernPrefix \o <<"L", "a", "y", "e", "r">>

TitlePrefix == <<"T", "e", "r", "n", " ", "r", "e", "p", "o", "r", "t", " ",
                 "f", "o", "r", " ">>

DocumentConfidence == 70

Digits == <<"0", "1", "2", "3", "4", "5", "6", "7", "8", "9">>

RECURSIVE DecimalDigits(_)
DecimalDigits(n) ==
    IF n < 10 THEN <<Digits[n + 1]>>
    ELSE Append(DecimalDigits(n \div 10), Digits[(n % 10) + 1])

\* '%03d' % n for n >= 0: decimal, zero-padded on the left to 3 digits.
RECURSIVE ZeroPad(_, _)
ZeroPad(s, width) == IF Len(s) >= width THEN s ELSE ZeroPad(<<"0">> \o s, width)

Format03d(n) == ZeroPad(DecimalDigits(n), 3)

\* Truth value of an optional str: None and '' are false.
Truthy(s) == s # None /\ Len(s) > 0

RECURSIVE Join(_)
Join(strs) == IF strs = <<>> THEN <<>> ELSE Head(strs) \o Join(Tail(strs))

\* The insertion-ordered dict resources_to_attrs.
DictHas(d, k) == \E i \in 1..Len(d) : d[i].key = k

DictGet(d, k) == d[CHOOSE i \in 1..Len(d) : d[i].key = k].ids

DictKeys(d) == [i \in 1..Len(d) |-> d[i].key]

\* if k in d.keys(): d[k].append(id)  else: d[k] = [id]
AppendOrCreate(d, k, id) ==
    IF DictHas(d, k)
    THEN [i \in 1..Len(d) |->
            IF d[i].key = k THEN [d[i] EXCEPT !.ids = Append(@, id)] ELSE d[i]]
    ELSE Append(d, [key |-> k, ids |-> <<id>>])

\* list.append mutates the receiver and evaluates to None.
ListAppend(receiver, x) == [self |-> Append(receiver, x), value |-> PyNone]

LayerPath(layer) == <<Sep>> \o Format03d(layer.layer_index)

PackagesRoot(layer_path) == layer_path \o <<Sep>> \o PackagesDir \o <<Sep>>

EcosystemPath(layer_path, pkg) == PackagesRoot(layer_path) \o pkg.source \o <<Sep>>

PkgPath(layer_path, pkg) == EcosystemPath(layer_path, pkg) \o pkg.name \o <<Sep>>

AbsoluteFileInPkg(layer_path, file_in_pkg) == layer_path \o <<Sep>> \o file_in_pkg

\* content.print_notices(notice_origin, '', '\t') (external formatter).
PrintNotices(notice_origin, prefix, indent) == prefix \o indent \o notice_origin

RECURSIVE PkgComment(_, _)
PkgComment(origins, i) ==
    IF i > Len(origins) THEN <<>>
    ELSE PrintNotices(origins[i], <<>>, <<"\t">>) \o PkgComment(origins, i + 1)

PkgLicense(pkg) ==
    IF Truthy(pkg.pkg_license) THEN pkg.pkg_license ELSE Join(pkg.pkg_licenses)

LicenseName(pkg) == IF Truthy(PkgLicense(pkg)) THEN PkgLicense(pkg) ELSE NONE

LayerRecord(layer) ==
    [source |-> [name |-> LayerSourceName,
                 documentConfidence |-> DocumentConfidence],
     comment |-> layer.repr]

PkgRecord(pkg) ==
    [source |-> [name |-> TernPrefix \o pkg.source,
                 documentConfidence |-> DocumentConfidence],
     comment |-> PkgComment(pkg.origins, 1),
     packageName |-> pkg.name,
     packageVersion |-> IF Truthy(pkg.version) THEN pkg.version ELSE NONE,
     url |-> pkg.proj_url,
     licenseName |-> LicenseName(pkg),
     copyright |-> IF Truthy(pkg.copyright) THEN pkg.copyright ELSE NONE]

\* for file_in_pkg in pkg.files: ...
RECURSIVE FileLoop(_, _, _, _, _)
FileLoop(rta, files, i, layer_path, pkg_uuid) ==
    IF i > Len(files) THEN rta
    ELSE FileLoop(AppendOrCreate(rta, AbsoluteFileInPkg(layer_path, files[i]),
                                 pkg_uuid),
                  files, i + 1, layer_path, pkg_uuid)

\* One iteration of "for pkg in layer.packages"; st holds the locals.
PkgBody(st, layer_path, pkg) ==
    LET pkg_uuid == st.next_uuid
        path     == PkgPath(layer_path, pkg)
        rta1     == AppendOrCreate(st.resources_to_attrs, path, pkg_uuid)
        rta2     == FileLoop(rta1, pkg.files, 1, layer_path, pkg_uuid)
    IN  [st EXCEPT
           !.next_uuid = pkg_uuid + 1,
           !.pkg_path = path,
           !.attr_breakpoints = @ \cup {EcosystemPath(layer_path, pkg),
                                        PackagesRoot(layer_path)},
           !.resources_to_attrs = rta2,
           !.external_attrs = (pkg_uuid :> PkgRecord(pkg)) @@ @]

RECURSIVE PkgLoop(_, _, _, _)
PkgLoop(st, layer_path, packages, i) ==
    IF i > Len(packages) THEN st
    ELSE PkgLoop(PkgBody(st, layer_path, packages[i]), layer_path, packages, i + 1)

\* One iteration of "for layer in image_obj.layers".  Reading the local
\* pkg_path before any assignment to it raises UnboundLocalError.
LayerBody(st, layer) ==
    LET layer_uuid == st.next_uuid
        layer_path == LayerPath(layer)
    IN  IF st.pkg_path = Unbound
        THEN [st EXCEPT !.next_uuid = layer_uuid + 1,
                        !.error = "UnboundLocalError"]
        ELSE PkgLoop(
               [st EXCEPT
                  !.next_uuid = layer_uuid + 1,
                  !.resources_to_attrs =
                      AppendOrCreate(@, st.pkg_path \o <<Sep>>, layer_uuid),
                  !.external_attrs = (layer_uuid :> LayerRecord(layer)) @@ @],
               layer_path, layer.packages, 1)

-----------------------------------------------------------------------------
(* The compiler applied to every list of at most MaxPaths paths.           *)

PathStrings == SeqsUpTo(PathChars, MaxPathLen)

DocIdle ==
    /\ image = [name |-> <<>>, layers |-> <<>>]
    /\ pc = "idle"
    /\ layer_pos = 1
    /\ next_uuid = 1
    /\ pkg_path = <<>>
    /\ external_attrs = <<>>
    /\ resources_to_attrs = <<>>
    /\ attr_breakpoints = {}
    /\ error = NoError
    /\ docu_dict = <<>>

InitTree ==
    /\ resources \in SeqsUpTo(PathStrings, MaxPaths)
    /\ tree_pc = "call"
    /\ filetree = EmptyTree
    /\ tree_error = NoError
    /\ DocIdle

CompileTree ==
    /\ tree_pc = "call"
    /\ LET r == _calculate_file_tree_from_paths(PyList(resources)) IN
         /\ filetree' = r.filetree
         /\ tree_error' = r.error
         /\ tree_pc' = IF r.error = NoError THEN "returned" ELSE "raised"
    /\ UNCHANGED <<resources, docVars>>

NextTree == CompileTree

SpecTree == InitTree /\ [][NextTree]_vars

-----------------------------------------------------------------------------
(* get_document_dict on every image of at most MaxLayers layers with at    *)
(* most MaxPkgs packages each.                                             *)

FileNames == {<<"u">>}

PackageSet ==
    [source : {<<"p">>}, name : {<<"f">>}, version : {None},
     pkg_license : {None, <<"M">>},
     pkg_licenses : {<<>>, << <<"A">>, <<"B">> >>},
     copyright : {None}, proj_url : {<<>>}, origins : {<<>>, << <<"n">> >>},
     files : SeqsUpTo(FileNames, MaxFiles) \ {<<>>}]

LayerAt(k, packages) ==
    [layer_index |-> k - 1, packages |-> packages, repr |-> <<"l">>]

Images ==
    {[name |-> <<"i">>,
      layers |-> [k \in 1..Len(pl) |-> LayerAt(k, pl[k])]] :
        pl \in SeqsUpTo(SeqsUpTo(PackageSet, MaxPkgs), MaxLayers)}

TreeIdle ==
    /\ resources = <<>>
    /\ tree_pc = "idle"
    /\ filetree = EmptyTree
    /\ tree_error = NoError

Init ==
    /\ image \in Images
    /\ pc = "start"
    /\ layer_pos = 1
    /\ next_uuid = 1
    /\ pkg_path = Unbound
    /\ external_attrs = <<>>
    /\ resources_to_attrs = <<>>
    /\ attr_breakpoints = {}
    /\ error = NoError
    /\ docu_dict = <<>>
    /\ TreeIdle

Locals ==
    [next_uuid |-> next_uuid, pkg_path |-> pkg_path,
     external_attrs |-> external_attrs,
     resources_to_attrs |-> resources_to_attrs,
     attr_breakpoints |-> attr_breakpoints, error |-> error]

\* get_document_dict up to the call of get_external_attrs, and the three
\* accumulators of that call.
get_document_dict ==
    /\ pc = "start"
    /\ docu_dict' = [metadata |-> [projectTitle |-> TitlePrefix \o image.name]]
    /\ external_attrs' = <<>>
    /\ resources_to_attrs' = <<>>
    /\ attr_breakpoints' = {}
    /\ pc' = "layers"
    /\ UNCHANGED <<image, layer_pos, next_uuid, pkg_path, error, treeVars>>

get_external_attrs_layer ==
    /\ pc = "layers"
    /\ layer_pos <= Len(image.layers)
    /\ LET st == LayerBody(Locals, image.layers[layer_pos]) IN
         /\ next_uuid' = st.next_uuid
         /\ pkg_path' = st.pkg_path
         /\ external_attrs' = st.external_attrs
         /\ resources_to_attrs' = st.resources_to_attrs
         /\ attr_breakpoints' = st.attr_breakpoints
         /\ error' = st.error
         /\ pc' = IF st.error = NoError THEN "layers" ELSE "attrs_raised"
         /\ layer_pos' = IF st.error = NoError THEN layer_pos + 1 ELSE layer_pos
    /\ UNCHANGED <<image, docu_dict, treeVars>>

\* return external_attrs, resources_to_attrs, attr_breakpoints, unpacked
\* into the three document fields.
get_external_attrs_return ==
    /\ pc = "layers"
    /\ layer_pos > Len(image.layers)
    /\ docu_dict' = [externalAttributions |-> external_attrs,
                     resourcesToAttributions |-> resources_to_attrs,
                     attributionBreakpoints |-> attr_breakpoints] @@ docu_dict
    /\ pc' = "attrs_returned"
    /\ UNCHANGED <<image, layer_pos, next_uuid, pkg_path, external_attrs,
                   resources_to_attrs, attr_breakpoints, error, treeVars>>

\* The error of get_external_attrs leaves get_document_dict unhandled.
RaiseOut ==
    /\ pc = "attrs_raised"
    /\ pc' = "doc_raised"
    /\ UNCHANGED <<image, layer_pos, next_uuid, pkg_path, external_attrs,
                   resources_to_attrs, attr_breakpoints, error, docu_dict,
                   treeVars>>

\* docu_dict["resources"] = _calculate_file_tree_from_paths(
\*     list(keys).append(breakpoints));  return docu_dict
BuildResources ==
    /\ pc = "attrs_returned"
    /\ LET arg == ListAppend(DictKeys(docu_dict.resourcesToAttributions),
                             docu_dict.attributionBreakpoints).value
           r   == _calculate_file_tree_from_paths(arg)
       IN  /\ error' = r.error
           /\ docu_dict' = IF r.error = NoError
                           THEN [resources |-> r.filetree] @@ docu_dict
                           ELSE docu_dict
           /\ pc' = IF r.error = NoError THEN "doc_returned" ELSE "doc_raised"
    /\ UNCHANGED <<image, layer_pos, next_uuid, pkg_path, external_attrs,
                   resources_to_attrs, attr_breakpoints, treeVars>>

Next == get_document_dict \/ get_external_attrs_layer \/ get_external_attrs_return \/ RaiseOut \/ BuildResources

Spec == Init /\ [][Next]_vars

-----------------------------------------------------------------------------
(* Vocabulary of the properties, stated on the inputs and not through the  *)
(* operators above.                                                        *)

EndsInSep(r) == Len(r) > 0 /\ r[Len(r)] = Sep

SegmentStarts(r) == {i \in 1..Len(r) : r[i] # Sep /\ (i = 1 \/ r[i - 1] = Sep)}

SegmentFrom(r, i) ==
    LET j == CHOOSE e \in i..Len(r) :
                 /\ \A k \in i..e : r[k] # Sep
                 /\ (e = Len(r) \/ r[e + 1] = Sep)
    IN  SubSeq(r, i, j)

\* The maximal separator-free runs of r, left to right.
SegmentList(r) ==
    LET S      == SegmentStarts(r)
        nth(k) == CHOOSE i \in S : Cardinality({x \in S : x < i}) = k - 1
    IN  [k \in 1..Cardinality(S) |-> SegmentFrom(r, nth(k))]

SegmentPrefixes(P) ==
    UNION {{SubSeq(SegmentList(P[i]), 1, k) : k \in 1..Len(SegmentList(P[i]))} :
             i \in {x \in 1..Len(P) : P[x] # <<Sep>>}}

ProperPrefix(p, s) == Len(p) < Len(s) /\ IsPrefix(p, s)

TreeEnded == tree_pc \in {"returned", "raised"}

AttrsEnded == pc \in {"attrs_returned", "attrs_raised", "doc_returned", "doc_raised"}

AttrsReturned == "externalAttributions" \in DOMAIN docu_dict

DocEnded == pc \in {"doc_returned", "doc_raised"}

LayerSet == {image.layers[k] : k \in 1..Len(image.layers)}

PackagesOf(layer) == {layer.packages[k] : k \in 1..Len(layer.packages)}

FilesOf(pkg) == {pkg.files[k] : k \in 1..Len(pkg.files)}

IdsAt(path) == {DictGet(resources_to_attrs, path)[k] :
                  k \in 1..Len(DictGet(resources_to_attrs, path))}

IsRecordOf(id, pkg) ==
    /\ id \in DOMAIN external_attrs
    /\ "packageName" \in DOMAIN external_attrs[id]
    /\ external_attrs[id].packageName = pkg.name
    /\ external_attrs[id].source.name = TernPrefix \o pkg.source

-----------------------------------------------------------------------------
(* The path-tree compiler.                                                 *)

\* C1 as stated: for every list of paths the compilation finishes and the
\* nodes of the returned tree are exactly the non-empty segment-prefixes of
\* the paths.
C1_FinishesWithExactlyThePrefixes ==
    TreeEnded =>
        /\ tree_pc = "returned"
        /\ DOMAIN filetree = SegmentPrefixes(resources)

\* C1 amended: whenever the compilation finishes, the nodes of the returned
\* tree are exactly the non-empty segment-prefixes of the paths; and it
\* finishes unless some path is the empty string or the segment list of some
\* path is a proper prefix of the segment list of a later path.
C1_PrefixesWhenFinished ==
    /\ tree_pc = "returned" => DOMAIN filetree = SegmentPrefixes(resources)
    /\ tree_pc = "raised" =>
         \/ \E i \in 1..Len(resources) : resources[i] = <<>>
         \/ \E i, j \in 1..Len(resources) :
               /\ i < j
               /\ SegmentList(resources[i]) # <<>>
               /\ ProperPrefix(SegmentList(resources[i]),
                               SegmentList(resources[j]))

\* Two paths compiled into a tree with a node below another node.
C1_Witness ==
    /\ tree_pc = "returned"
    /\ Len(resources) = 2
    /\ Cardinality(DOMAIN filetree) >= 3
    /\ \E n \in DOMAIN filetree : Len(n) >= 2

\* A directory node for the path of resources[i] was created by an earlier
\* input path.
DirectoryCreatedEarlier(i) ==
    \E j \in 1..(i - 1) :
        \/ ProperPrefix(SegmentList(resources[i]), SegmentList(resources[j]))
        \/ /\ SegmentList(resources[j]) = SegmentList(resources[i])
           /\ EndsInSep(resources[j])

\* C2: in the returned tree the node of an input path ending in the
\* separator is a mapping, and the node of an input path not ending in it is
\* the sentinel unless an earlier input path created a directory node there.
C2_DirectoryAndFileNodes ==
    tree_pc = "returned" =>
        \A i \in 1..Len(resources) :
            LET r == resources[i]
                node == SegmentList(r)
            IN  node # <<>> =>
                  IF EndsInSep(r)
                  THEN filetree[node] = Mapping
                  ELSE filetree[node] = Sentinel \/ DirectoryCreatedEarlier(i)

-----------------------------------------------------------------------------
(* The document assembler and the attribution aggregator.                  *)

Resolves(tree, path) == SegmentList(path) = <<>> \/ SegmentList(path) \in DOMAIN tree

\* C3: once get_external_attrs has returned, get_document_dict returns a
\* document in which every key of resourcesToAttributions and every entry
\* of attributionBreakpoints resolves to a node of resources.
C3_ResourcesCoverKeysAndBreakpoints ==
    (DocEnded /\ AttrsReturned) =>
        /\ pc = "doc_returned"
        /\ \A i \in 1..Len(docu_dict.resourcesToAttributions) :
               Resolves(docu_dict.resources,
                        docu_dict.resourcesToAttributions[i].key)
        /\ \A b \in docu_dict.attributionBreakpoints :
               Resolves(docu_dict.resources, b)

\* C4: for every layer, get_external_attrs registers a "Tern:Layer" record
\* under a fresh identifier and appends that identifier to the Path Index
\* entry of <layerpath>/Packages/ and to no other entry.
C4_LayerAnchoredAtPackagesRoot ==
    AttrsEnded =>
        /\ \A layer \in LayerSet :
             \E id \in DOMAIN external_attrs :
                /\ external_attrs[id].source.name = LayerSourceName
                /\ DictHas(resources_to_attrs, PackagesRoot(LayerPath(layer)))
                /\ \A i \in 1..Len(resources_to_attrs) :
                      (\E k \in 1..Len(resources_to_attrs[i].ids) :
                           resources_to_attrs[i].ids[k] = id)
                      <=> resources_to_attrs[i].key
                            = PackagesRoot(LayerPath(layer))

\* C5: after get_external_attrs, the packages-root path of every layer and
\* the per-ecosystem path of every package are in the Breakpoint Set.
C5_BreakpointsOfEveryLayer ==
    AttrsEnded =>
        /\ \A layer \in LayerSet :
             /\ PackagesRoot(LayerPath(layer)) \in attr_breakpoints
             /\ \A pkg \in PackagesOf(layer) :
                   EcosystemPath(LayerPath(layer), pkg) \in attr_breakpoints

\* C6: after get_external_attrs, the absolute path of every file of every
\* package is a key of the Path Index and the package's identifier is in
\* the id-list of that key.
C6_FilesIndexedUnderTheirPackage ==
    AttrsEnded =>
        /\ \A layer \in LayerSet : \A pkg \in PackagesOf(layer) :
             \A f \in FilesOf(pkg) :
                LET path == AbsoluteFileInPkg(LayerPath(layer), f) IN
                /\ DictHas(resources_to_attrs, path)
                /\ \E id \in IdsAt(path) : IsRecordOf(id, pkg)

\* The license the claim resolves for a package.
ResolvedLicense(pkg) ==
    IF pkg.pkg_license # None /\ pkg.pkg_license # <<>>
    THEN pkg.pkg_license
    ELSE IF Join(pkg.pkg_licenses) # <<>>
         THEN Join(pkg.pkg_licenses)
         ELSE NONE

\* C7: every package has an attribution record whose licenseName is its
\* single license when present and non-empty, else the concatenation of its
\* license sequence, else "NONE".
C7_LicenseNameResolved ==
    AttrsEnded =>
        /\ \A layer \in LayerSet : \A pkg \in PackagesOf(layer) :
             \E id \in DOMAIN external_attrs :
                /\ IsRecordOf(id, pkg)
                /\ external_attrs[id].licenseName = ResolvedLicense(pkg)

\* C8: get_external_attrs raises no error on any image: it returns its
\* three outputs, with "NONE" in place of an absent version, license or
\* copyright.
C8_NoErrorRaised ==
    /\ pc # "attrs_raised"
    /\ AttrsReturned =>
         \A id \in DOMAIN external_attrs :
            "packageName" \in DOMAIN external_attrs[id] =>
               /\ Truthy(external_attrs[id].packageVersion)
               /\ Truthy(external_attrs[id].licenseName)
               /\ Truthy(external_attrs[id].copyright)

\* The number of times the walk of the image reaches path as the absolute
\* path of a package's file.
FileOccurrences(path) ==
    Cardinality(
      {<<l, p, f>> \in (1..MaxLayers) \X (1..MaxPkgs) \X (1..MaxFiles) :
        /\ l <= Len(image.layers)
        /\ p <= Len(image.layers[l].packages)
        /\ f <= Len(image.layers[l].packages[p].files)
        /\ AbsoluteFileInPkg(LayerPath(image.layers[l]),
                             image.layers[l].packages[p].files[f]) = path})

\* C9: the id-list of every file path holds one entry for each time the
\* walk reaches it, in walk order (identifiers are generated in walk order).
C9_OneEntryPerAppendInWalkOrder ==
    AttrsEnded =>
        /\ \A layer \in LayerSet : \A pkg \in PackagesOf(layer) :
             \A f \in FilesOf(pkg) :
                LET path == AbsoluteFileInPkg(LayerPath(layer), f) IN
                /\ DictHas(resources_to_attrs, path)
                /\ Len(DictGet(resources_to_attrs, path)) = FileOccurrences(path)
                /\ \A a, b \in 1..Len(DictGet(resources_to_attrs, path)) :
                      a <= b => DictGet(resources_to_attrs, path)[a]
                                  <= DictGet(resources_to_attrs, path)[b]

\* C10: at every layer boundary and at return, the identifiers in the Path
\* Index are exactly the keys of the attribution registry.
C10_ReferentialIntegrity ==
    pc \in {"layers", "attrs_returned"} =>
        DOMAIN external_attrs
          = UNION {{resources_to_attrs[i].ids[k] :
                      k \in 1..Len(resources_to_attrs[i].ids)} :
                   i \in 1..Len(resources_to_attrs)}

====
